---- MODULE Spec2Model ----
(***************************************************************************)
(* Model of ExternalAnchorsUseRelNoopenerAudit.audit                       *)
(* (lighthouse-core/audits/dobetterweb/external-anchors-use-rel-noopener). *)
(*                                                                         *)
(* JavaScript strings are sequences of one-character strings, so that      *)
(* includes, toLowerCase, startsWith and URL parsing are computed on the   *)
(* characters.  A property an anchor does not have is a field missing from *)
(* the record that models the anchor.                                      *)
(***************************************************************************)
EXTENDS Integers, Sequences, FiniteSets, TLC

VARIABLES artifacts, pc, result

vars == <<artifacts, pc, result>>

(***************************************************************************)
(* Bound of the model: the length of the AnchorElements artifact.          *)
(***************************************************************************)
MaxAnchors == 2

(***************************************************************************)
(* String primitives of the language, as the audit uses them.              *)
(***************************************************************************)
UpperLetters ==
  <<"A","B","C","D","E","F","G","H","I","J","K","L","M",
    "N","O","P","Q","R","S","T","U","V","W","X","Y","Z">>

LowerLetters ==
  <<"a","b","c","d","e","f","g","h","i","j","k","l","m",
    "n","o","p","q","r","s","t","u","v","w","x","y","z">>

Digits == <<"0","1","2","3","4","5","6","7","8","9">>

IsUpper(c) == \E i \in 1..26 : UpperLetters[i] = c

IsLower(c) == \E i \in 1..26 : LowerLetters[i] = c

IsDigit(c) == \E i \in 1..10 : Digits[i] = c

ToLowerChar(c) ==
  IF IsUpper(c) THEN LowerLetters[CHOOSE i \in 1..26 : UpperLetters[i] = c] ELSE c

\* String.prototype.toLowerCase
toLowerCase(s) == [i \in 1..Len(s) |-> ToLowerChar(s[i])]

\* String.prototype.startsWith
startsWith(s, prefix) ==
  Len(s) >= Len(prefix) /\ SubSeq(s, 1, Len(prefix)) = prefix

\* String.prototype.includes
includes(s, part) ==
  \E i \in 0..(Len(s) - Len(part)) : SubSeq(s, i + 1, i + Len(part)) = part

\* The string literals of the audit.
StrBlank == <<"_","b","l","a","n","k">>

StrNoopener == <<"n","o","o","p","e","n","e","r">>

StrNoreferrer == <<"n","o","r","e","f","e","r","r","e","r">>

StrHttp == <<"h","t","t","p">>

StrUnknown == <<"U","n","k","n","o","w","n">>

StrEmpty == <<>>

\* ToString(undefined), what the URL constructor is handed for a missing href.
StrUndefined == <<"u","n","d","e","f","i","n","e","d">>

(***************************************************************************)
(* new URL(input) without a base, and its host getter (the URL class of    *)
(* lib/url-shim.js is the platform's WHATWG URL).  Modelled: trimming of   *)
(* spaces, the scheme, special schemes and their default ports, the        *)
(* authority with credentials and port, forbidden host code points, and    *)
(* lower-casing of a special scheme's host.  IPv4/IPv6 literals, percent   *)
(* decoding and IDNA are left out; no input of the model uses them.        *)
(***************************************************************************)
Failure == [ok |-> FALSE, host |-> <<>>]

RECURSIVE TrimLeft(_)
TrimLeft(s) == IF s # <<>> /\ Head(s) = " " THEN TrimLeft(Tail(s)) ELSE s

RECURSIVE TrimRight(_)
TrimRight(s) ==
  IF s # <<>> /\ s[Len(s)] = " " THEN TrimRight(SubSeq(s, 1, Len(s) - 1)) ELSE s

IsSchemeChar(c) == IsUpper(c) \/ IsLower(c) \/ IsDigit(c) \/ c \in {"+", "-", "."}

\* Index of the first character of s that is in stops, Len(s) + 1 if none.
FirstOf(s, stops) ==
  IF \E i \in 1..Len(s) : s[i] \in stops
  THEN CHOOSE i \in 1..Len(s) : s[i] \in stops /\ \A j \in 1..(i - 1) : s[j] \notin stops
  ELSE Len(s) + 1

\* Index of the last occurrence of c in s, 0 if none.
LastIndexOf(s, c) ==
  IF \E i \in 1..Len(s) : s[i] = c
  THEN CHOOSE i \in 1..Len(s) : s[i] = c /\ \A j \in (i + 1)..Len(s) : s[j] # c
  ELSE 0

\* Length of the scheme of s when s is "scheme:...", 0 when s has no scheme.
SchemeLen(s) ==
  LET colon == FirstOf(s, {":"})
  IN IF /\ s # <<>>
        /\ (IsUpper(s[1]) \/ IsLower(s[1]))
        /\ colon <= Len(s)
        /\ \A i \in 1..(colon - 1) : IsSchemeChar(s[i])
     THEN colon - 1
     ELSE 0

SchemeHttp == <<"h","t","t","p">>

SchemeHttps == <<"h","t","t","p","s">>

SchemeWs == <<"w","s">>

SchemeWss == <<"w","s","s">>

SchemeFtp == <<"f","t","p">>

SchemeFile == <<"f","i","l","e">>

IsSpecial(scheme) ==
  scheme \in {SchemeHttp, SchemeHttps, SchemeWs, SchemeWss, SchemeFtp, SchemeFile}

\* The default port of a special scheme, -1 for a scheme without one.
DefaultPort(scheme) ==
  IF scheme \in {SchemeHttp, SchemeWs} THEN 80
  ELSE IF scheme \in {SchemeHttps, SchemeWss} THEN 443
  ELSE IF scheme = SchemeFtp THEN 21
  ELSE -1

DigitValue(c) == (CHOOSE i \in 1..10 : Digits[i] = c) - 1

RECURSIVE ParseNumber(_, _)
ParseNumber(s, acc) ==
  IF s = <<>> THEN acc
  ELSE IF acc > 65535 THEN acc
  ELSE ParseNumber(Tail(s), acc * 10 + DigitValue(Head(s)))

RECURSIVE NumberToString(_)
NumberToString(n) ==
  IF n < 10 THEN <<Digits[n + 1]>>
  ELSE Append(NumberToString(n \div 10), Digits[(n % 10) + 1])

ForbiddenHostChars ==
  {" ", "#", "/", ":", "<", ">", "?", "@", "[", "\\", "]", "^", "|"}

RECURSIVE SkipSlashes(_)
SkipSlashes(s) ==
  IF s # <<>> /\ Head(s) \in {"/", "\\"} THEN SkipSlashes(Tail(s)) ELSE s

NoHost == [ok |-> TRUE, host |-> <<>>]

\* The host getter: the host, and the port unless it is the scheme's default.
SerializeHost(hostname, portStr, port, scheme) ==
  IF port > 65535 THEN Failure
  ELSE IF portStr = <<>> \/ port = DefaultPort(scheme)
       THEN [ok |-> TRUE, host |-> hostname]
  ELSE [ok |-> TRUE, host |-> hostname \o <<":">> \o NumberToString(port)]

\* Host and port parsing: a special scheme needs a host, the host has no
\* forbidden code point and is lower-cased for a special scheme, the port is
\* digits.
ParseHostAndPort(rawHost, portStr, hasColon, scheme) ==
  IF IsSpecial(scheme) /\ scheme # SchemeFile /\ rawHost = <<>> THEN Failure
  ELSE IF rawHost = <<>> /\ hasColon THEN Failure
  ELSE IF \E i \in 1..Len(rawHost) :
             rawHost[i] \in ForbiddenHostChars \/ (IsSpecial(scheme) /\ rawHost[i] = "%")
       THEN Failure
  ELSE IF \E i \in 1..Len(portStr) : ~IsDigit(portStr[i]) THEN Failure
  ELSE SerializeHost(IF IsSpecial(scheme) THEN toLowerCase(rawHost) ELSE rawHost,
                     portStr, ParseNumber(portStr, 0), scheme)

\* "host:port" split at its first colon.
SplitHostPort(hostport, colon, scheme) ==
  ParseHostAndPort(SubSeq(hostport, 1, colon - 1),
                   SubSeq(hostport, colon + 1, Len(hostport)),
                   colon <= Len(hostport), scheme)

\* An authority "user:pw@host:port" whose last "@" is at index at (0: none).
SplitCredentials(authority, at, scheme) ==
  IF at > 0 /\ at = Len(authority) THEN Failure
  ELSE SplitHostPort(SubSeq(authority, at + 1, Len(authority)),
                     FirstOf(SubSeq(authority, at + 1, Len(authority)), {":"}),
                     scheme)

\* The authority is what precedes the first path, query or fragment delimiter.
ParseAuthority(after, stops, scheme) ==
  SplitCredentials(SubSeq(after, 1, FirstOf(after, stops) - 1),
                   LastIndexOf(SubSeq(after, 1, FirstOf(after, stops) - 1), "@"),
                   scheme)

\* What follows "scheme:".  A special scheme other than file always has an
\* authority, after any number of slashes; another scheme has one after "//".
ParseAfterScheme(scheme, rest) ==
  IF IsSpecial(scheme) /\ scheme # SchemeFile
  THEN ParseAuthority(SkipSlashes(rest), {"/", "\\", "?", "#"}, scheme)
  ELSE IF startsWith(rest, <<"/", "/">>)
       THEN ParseAuthority(SubSeq(rest, 3, Len(rest)),
                           IF IsSpecial(scheme) THEN {"/", "\\", "?", "#"} ELSE {"/", "?", "#"},
                           scheme)
  ELSE NoHost

\* s with a scheme of n characters (0: none; without a base URL that fails).
ParseScheme(s, n) ==
  IF n = 0 THEN Failure
  ELSE ParseAfterScheme(toLowerCase(SubSeq(s, 1, n)), SubSeq(s, n + 2, Len(s)))

ParseTrimmed(s) == ParseScheme(s, SchemeLen(s))

\* The URL parser on one input: ok is FALSE when parsing fails, host is what
\* the host getter returns.
ParseURL(input) == ParseTrimmed(TrimRight(TrimLeft(input)))

(***************************************************************************)
(* Inputs of the model.                                                    *)
(***************************************************************************)
UrlA == <<"h","t","t","p","s",":","/","/","a",".","c","o","m">>

UrlB80 == <<"h","t","t","p",":","/","/","b",".","c","o","m",":","8","0","/">>

HrefSame == <<"h","t","t","p","s",":","/","/","a",".","c","o","m","/","p">>

HrefCross == <<"h","t","t","p","s",":","/","/","b",".","c","o","m","/","x">>

HrefUpper == <<"H","T","T","P",":","/","/","B",".","c","o","m">>

HrefMailto == <<"m","a","i","l","t","o",":","x","@","b",".","c","o","m">>

HrefNotAUrl == <<"n","o","t"," ","a"," ","u","r","l">>

HrefHttpOnly == <<"h","t","t","p",":","/","/">>

RelNoopenerNofollow ==
  <<"n","o","o","p","e","n","e","r"," ","n","o","f","o","l","l","o","w">>

RelUpper == <<"N","O","O","P","E","N","E","R">>

HtmlA == <<"<","a",">">>

FinalUrls == {UrlA, UrlB80, HrefNotAUrl}

Hrefs == {StrEmpty, HrefSame, HrefCross, HrefUpper, HrefMailto, HrefNotAUrl, HrefHttpOnly}

Targets == {StrBlank, StrEmpty}

Rels == {StrEmpty, RelNoopenerNofollow, StrNoreferrer, RelUpper}

OuterHTMLs == {HtmlA, StrEmpty}

AnchorRecords ==
  [href : Hrefs, target : Targets, rel : Rels, outerHTML : OuterHTMLs]
    \cup [target : Targets, rel : Rels, outerHTML : OuterHTMLs]

\* The anchors that longer lists are built from: every href, target and
\* outerHTML, with an empty rel.
AnchorSamples == {a \in AnchorRecords : a.rel = StrEmpty}

\* Every list of at most one anchor, and every list of at most MaxAnchors
\* sample anchors.
AnchorLists ==
  UNION {[1..n -> AnchorRecords] : n \in 0..1}
    \cup UNION {[1..n -> AnchorSamples] : n \in 0..MaxAnchors}

\* Every string the audit hands to new URL.
UrlInputs == FinalUrls \cup Hrefs \cup {StrUndefined}

\* The parser's results on the inputs, computed once.
URLTable == [input \in UrlInputs |-> ParseURL(input)]

\* new URL(input): ok is FALSE when the constructor throws, host is .host.
NewURL(input) == URLTable[input]


(***************************************************************************)
(* Collaborators of the audit: the i18n message instances and the table    *)
(* details of the Audit base class.                                        *)
(***************************************************************************)
UIStrings ==
  [warning      |-> "Unable to determine the destination for anchor ({anchorHTML}). If not used as a hyperlink, consider removing target=_blank.",
   columnTarget |-> "Target",
   columnRel    |-> "Rel"]

\* i18n.UIStrings.columnURL
columnURL == "URL"

\* str_(icuMessage, values): the message and the values it is formatted with.
str_(icuMessage, values) == [icuMessage |-> icuMessage, values |-> values]

NoValues == [none |-> TRUE]

\* Audit.makeTableDetails(headings, items)
makeTableDetails(headings, items) ==
  [type |-> "table", headings |-> headings, items |-> items]

(***************************************************************************)
(* Anchor records.  href may be missing; target, rel and outerHTML are     *)
(* strings.                                                                *)
(***************************************************************************)
Has(anchor, key) == key \in DOMAIN anchor

\* ToString(anchor.href), the argument new URL receives.
HrefString(anchor) == IF Has(anchor, "href") THEN anchor.href ELSE StrUndefined

\* !anchor[key]: the property is undefined or the empty string.
Falsy(anchor, key) == ~Has(anchor, key) \/ anchor[key] = StrEmpty

\* anchor[key] || dflt
OrDefault(anchor, key, dflt) == IF Falsy(anchor, key) THEN dflt ELSE anchor[key]

(***************************************************************************)
(* The filter chain of audit().                                            *)
(***************************************************************************)
\* The definitions named X_y are X with one slip, used to see that the
\* properties below depend on X.
\* Slip: the target is not looked at.
IsBlankWithoutRel_anyTarget(anchor) ==
  /\ ~includes(anchor.rel, StrNoopener)
  /\ ~includes(anchor.rel, StrNoreferrer)

\* Slip: rel is compared to the tokens instead of searched for them.
IsBlankWithoutRel_exactRel(anchor) ==
  /\ anchor.target = StrBlank
  /\ anchor.rel # StrNoopener
  /\ anchor.rel # StrNoreferrer

\* First filter: target="_blank" without rel noopener/noreferrer.
IsBlankWithoutRel(anchor) ==
  /\ anchor.target = StrBlank
  /\ ~includes(anchor.rel, StrNoopener)
  /\ ~includes(anchor.rel, StrNoreferrer)

\* Slip: the catch block returns false.
CrossOriginCallback_dropOnCatch(anchor, pageHost) ==
  LET url == NewURL(HrefString(anchor))
  IN IF url.ok
     THEN [keep |-> url.host # pageHost, caught |-> FALSE]
     ELSE [keep |-> FALSE, caught |-> TRUE]

\* Slip: the hosts are not compared.
CrossOriginCallback_keepSameHost(anchor, pageHost) ==
  LET url == NewURL(HrefString(anchor))
  IN [keep |-> TRUE, caught |-> ~url.ok]

\* Second filter's callback on one anchor: whether it is kept, and whether the
\* catch block ran.
CrossOriginCallback(anchor, pageHost) ==
  LET url == NewURL(HrefString(anchor))
  IN IF url.ok
     THEN [keep |-> url.host # pageHost, caught |-> FALSE]
     ELSE [keep |-> TRUE, caught |-> TRUE]

\* Slip: warnings.unshift instead of warnings.push.
RECURSIVE FilterCrossOrigin_unshift(_, _, _)
FilterCrossOrigin_unshift(anchors, pageHost, warnings) ==
  IF anchors = <<>> THEN [kept |-> <<>>, warnings |-> warnings]
  ELSE LET anchor == Head(anchors)
           url    == NewURL(HrefString(anchor))
           pushed == IF ~url.ok
                     THEN <<str_(UIStrings.warning, [anchorHTML |-> anchor.outerHTML])>>
                            \o warnings
                     ELSE warnings
           rest   == FilterCrossOrigin_unshift(Tail(anchors), pageHost, pushed)
       IN [kept     |-> IF ~url.ok \/ url.host # pageHost
                        THEN <<anchor>> \o rest.kept
                        ELSE rest.kept,
           warnings |-> rest.warnings]

\* Second filter over the survivors of the first, in order, pushing onto the
\* warnings array as it goes.
RECURSIVE FilterCrossOrigin(_, _, _)
FilterCrossOrigin(anchors, pageHost, warnings) ==
  IF anchors = <<>> THEN [kept |-> <<>>, warnings |-> warnings]
  ELSE LET anchor == Head(anchors)
           r      == CrossOriginCallback(anchor, pageHost)
           pushed == IF r.caught
                     THEN Append(warnings,
                                 str_(UIStrings.warning, [anchorHTML |-> anchor.outerHTML]))
                     ELSE warnings
           rest   == FilterCrossOrigin(Tail(anchors), pageHost, pushed)
       IN [kept     |-> IF r.keep THEN <<anchor>> \o rest.kept ELSE rest.kept,
           warnings |-> rest.warnings]

\* Slip: the href is not lower-cased.
IsHttpOrNoHref_caseSensitive(anchor) ==
  Falsy(anchor, "href") \/ startsWith(anchor.href, StrHttp)

\* Slip: the third filter keeps everything.
IsHttpOrNoHref_keepAll(anchor) == TRUE

\* Third filter: no href, or an http(s) href.
IsHttpOrNoHref(anchor) ==
  Falsy(anchor, "href") \/ startsWith(toLowerCase(anchor.href), StrHttp)

\* Slip: href is not defaulted.
Summary_rawHref(anchor) ==
  [href      |-> HrefString(anchor),
   target    |-> OrDefault(anchor, "target", StrEmpty),
   rel       |-> OrDefault(anchor, "rel", StrEmpty),
   outerHTML |-> OrDefault(anchor, "outerHTML", StrEmpty)]

\* The map callback.
Summary(anchor) ==
  [href      |-> OrDefault(anchor, "href", StrUnknown),
   target    |-> OrDefault(anchor, "target", StrEmpty),
   rel       |-> OrDefault(anchor, "rel", StrEmpty),
   outerHTML |-> OrDefault(anchor, "outerHTML", StrEmpty)]

MapSummary(anchors) == [i \in 1..Len(anchors) |-> Summary(anchors[i])]

\* Slip: Number(failingAnchors.length).
Score_length(failingAnchors) == Len(failingAnchors)

\* Number(failingAnchors.length === 0)
Score(failingAnchors) == IF Len(failingAnchors) = 0 THEN 1 ELSE 0

Headings ==
  <<[key |-> "href", itemType |-> "url", text |-> str_(columnURL, NoValues)],
    [key |-> "target", itemType |-> "text", text |-> str_(UIStrings.columnTarget, NoValues)],
    [key |-> "rel", itemType |-> "text", text |-> str_(UIStrings.columnRel, NoValues)]>>

\* What result holds while audit() has returned nothing.
NoProduct == [none |-> TRUE]

\* Slip: a finalUrl that fails to parse is given the empty host.
audit_swallowPageError(a) ==
  LET page           == NewURL(a.URL.finalUrl)
      pageHost       == page.host
      first          == SelectSeq(a.AnchorElements, IsBlankWithoutRel)
      second         == FilterCrossOrigin(first, pageHost, <<>>)
      third          == SelectSeq(second.kept, IsHttpOrNoHref)
      failingAnchors == MapSummary(third)
      details        == makeTableDetails(Headings, failingAnchors)
  IN [threw   |-> FALSE,
      product |-> [score        |-> Score(failingAnchors),
                   extendedInfo |-> [value |-> failingAnchors],
                   details      |-> details,
                   warnings     |-> second.warnings]]

\* audit(artifacts): threw is TRUE when new URL(finalUrl) throws, and product
\* is the returned object otherwise.
audit(a) ==
  LET page           == NewURL(a.URL.finalUrl)
      pageHost       == page.host
      first          == SelectSeq(a.AnchorElements, IsBlankWithoutRel)
      second         == FilterCrossOrigin(first, pageHost, <<>>)
      third          == SelectSeq(second.kept, IsHttpOrNoHref)
      failingAnchors == MapSummary(third)
      details        == makeTableDetails(Headings, failingAnchors)
  IN IF ~page.ok THEN [threw |-> TRUE, product |-> NoProduct]
     ELSE [threw   |-> FALSE,
           product |-> [score        |-> Score(failingAnchors),
                        extendedInfo |-> [value |-> failingAnchors],
                        details      |-> details,
                        warnings     |-> second.warnings]]

(***************************************************************************)
(* The state machine: the artifacts are handed over, audit() runs once.    *)
(***************************************************************************)
Init ==
  /\ artifacts \in [URL : [finalUrl : FinalUrls], AnchorElements : AnchorLists]
  /\ pc = "ready"
  /\ result = NoProduct

Audit ==
  /\ pc = "ready"
  /\ LET r == audit(artifacts)
     IN /\ pc' = IF r.threw THEN "threw" ELSE "returned"
        /\ result' = r.product
  /\ UNCHANGED artifacts

Next == Audit

Spec == Init /\ [][Next]_vars

(***************************************************************************)
(* Vocabulary of the properties: the predicates as the specification       *)
(* words them, on the anchors handed to audit().                           *)
(***************************************************************************)
Returned == pc = "returned"

In == artifacts.AnchorElements

Out == result.extendedInfo.value

PageHost == NewURL(artifacts.URL.finalUrl).host

\* xs is a subsequence of ys: xs is ys with some elements removed.
RECURSIVE IsSubseq(_, _)
IsSubseq(xs, ys) ==
  IF xs = <<>> THEN TRUE
  ELSE IF ys = <<>> THEN FALSE
  ELSE IF Head(xs) = Head(ys) THEN IsSubseq(Tail(xs), Tail(ys))
  ELSE IsSubseq(xs, Tail(ys))

Unparsable(anchor) == ~NewURL(HrefString(anchor)).ok

HrefEmpty(anchor) == ~Has(anchor, "href") \/ Len(anchor.href) = 0

\* Stage A: target is "_blank" and rel has neither safe token.
StageA(anchor) ==
  /\ anchor.target = StrBlank
  /\ ~includes(anchor.rel, StrNoopener)
  /\ ~includes(anchor.rel, StrNoreferrer)

\* Stage B: the href's host differs from the page's, or the href is unparsable.
StageB(anchor) ==
  Unparsable(anchor) \/ NewURL(HrefString(anchor)).host # PageHost

\* Stage C: no href, or a lower-cased href that starts with "http".
StageC(anchor) ==
  HrefEmpty(anchor) \/ startsWith(toLowerCase(anchor.href), StrHttp)

\* The summary of an anchor, with its defaults.
SummaryOf(anchor) ==
  [href      |-> IF HrefEmpty(anchor) THEN StrUnknown ELSE anchor.href,
   target    |-> IF Has(anchor, "target") THEN anchor.target ELSE StrEmpty,
   rel       |-> IF Has(anchor, "rel") THEN anchor.rel ELSE StrEmpty,
   outerHTML |-> IF Has(anchor, "outerHTML") THEN anchor.outerHTML ELSE StrEmpty]

SummariesOf(anchors) == [i \in 1..Len(anchors) |-> SummaryOf(anchors[i])]

Reported(anchor) == \E j \in 1..Len(Out) : Out[j] = SummaryOf(anchor)

\* The warnings that carry the outerHTML html.
WarningsAbout(html) ==
  {k \in 1..Len(result.warnings) :
     /\ result.warnings[k].icuMessage = UIStrings.warning
     /\ result.warnings[k].values.anchorHTML = html}

\* C1 as stated: every anchor with an unparsable href is among the failing
\* anchors, and one warning with its outerHTML is produced for each of them.
Orig_C1 ==
  Returned =>
    \A i \in 1..Len(In) :
      Unparsable(In[i]) =>
        /\ Reported(In[i])
        /\ Cardinality(WarningsAbout(In[i].outerHTML))
             = Cardinality({k \in 1..Len(In) :
                              Unparsable(In[k]) /\ In[k].outerHTML = In[i].outerHTML})

\* C1, amended: every anchor that passes the first filter and has an
\* unparsable href gets exactly one warning with its outerHTML, and it is among
\* the failing anchors exactly when its href is absent or empty or, lower-cased,
\* starts with "http".
Thm_C1 ==
  Returned =>
    \A i \in 1..Len(In) :
      (StageA(In[i]) /\ Unparsable(In[i])) =>
        /\ Reported(In[i]) <=> StageC(In[i])
        /\ Cardinality(WarningsAbout(In[i].outerHTML))
             = Cardinality({k \in 1..Len(In) :
                              /\ StageA(In[k])
                              /\ Unparsable(In[k])
                              /\ In[k].outerHTML = In[i].outerHTML})

Witness_C1 ==
  /\ Returned
  /\ \E i \in 1..Len(In) :
       /\ StageA(In[i])
       /\ Unparsable(In[i])
       /\ ~HrefEmpty(In[i])
       /\ Reported(In[i])
       /\ Cardinality(WarningsAbout(In[i].outerHTML)) = 1

\* C2: the failing anchors are the summaries, in input order, of exactly the
\* anchors that satisfy stages A, B and C.
Unsafe(anchor) == StageA(anchor) /\ StageB(anchor) /\ StageC(anchor)

Thm_C2 == Returned => Out = SummariesOf(SelectSeq(In, Unsafe))

Witness_C2 ==
  /\ Returned
  /\ Len(In) = 2
  /\ Len(Out) = 2
  /\ Out[1] # Out[2]

\* C3: no failing anchor comes from an anchor whose target is not "_blank":
\* the failing anchors are a subsequence of the summaries of the "_blank"
\* anchors.
TargetBlank(anchor) == anchor.target = StrBlank

Thm_C3 == Returned => IsSubseq(Out, SummariesOf(SelectSeq(In, TargetBlank)))

Witness_C3 ==
  /\ Returned
  /\ \E i \in 1..Len(In) :
       /\ In[i].target # StrBlank
       /\ In[i].rel = StrEmpty
       /\ Unsafe([In[i] EXCEPT !.target = StrBlank])

\* C4: no failing anchor comes from an anchor whose rel contains noopener or
\* noreferrer: the failing anchors are a subsequence of the summaries of the
\* other anchors.
RelUnsafe(anchor) ==
  ~(includes(anchor.rel, StrNoopener) \/ includes(anchor.rel, StrNoreferrer))

Thm_C4 == Returned => IsSubseq(Out, SummariesOf(SelectSeq(In, RelUnsafe)))

Witness_C4 ==
  /\ Returned
  /\ \E i \in 1..Len(In) :
       /\ In[i].rel = RelNoopenerNofollow
       /\ Unsafe([In[i] EXCEPT !.rel = StrEmpty])

\* C5: no failing anchor comes from an anchor whose href parses to the host of
\* the page.
SameHost(anchor) ==
  NewURL(HrefString(anchor)).ok /\ NewURL(HrefString(anchor)).host = PageHost

NotSameHost(anchor) == ~SameHost(anchor)

Thm_C5 == Returned => IsSubseq(Out, SummariesOf(SelectSeq(In, NotSameHost)))

Witness_C5 ==
  /\ Returned
  /\ \E i \in 1..Len(In) : SameHost(In[i]) /\ StageA(In[i]) /\ StageC(In[i])

\* C6: no failing anchor comes from an anchor whose href is non-empty and,
\* lower-cased, does not start with "http".
NonHttp(anchor) ==
  ~HrefEmpty(anchor) /\ ~startsWith(toLowerCase(anchor.href), StrHttp)

NotNonHttp(anchor) == ~NonHttp(anchor)

Thm_C6 == Returned => IsSubseq(Out, SummariesOf(SelectSeq(In, NotNonHttp)))

Witness_C6 ==
  /\ Returned
  /\ \E i \in 1..Len(In) :
       NonHttp(In[i]) /\ StageA(In[i]) /\ ~Unparsable(In[i]) /\ StageB(In[i])

\* C7: the score is 0 or 1, and it is 1 exactly when there is no failing
\* anchor, whatever the warnings.
Thm_C7 ==
  Returned =>
    /\ result.score \in {0, 1}
    /\ result.score = 1 <=> Len(Out) = 0

Witness_C7 ==
  /\ Returned
  /\ Len(result.warnings) > 0
  /\ Len(Out) = 0
  /\ result.score = 1

WarnedAnchor(anchor) == StageA(anchor) /\ Unparsable(anchor)

WarningFor(anchor) ==
  [icuMessage |-> UIStrings.warning, values |-> [anchorHTML |-> anchor.outerHTML]]

Thm_C10 ==
  Returned =>
    LET warned == SelectSeq(In, WarnedAnchor)
    IN result.warnings = [k \in 1..Len(warned) |-> WarningFor(warned[k])]

Witness_C10 ==
  /\ Returned
  /\ Len(In) = 2
  /\ ~StageA(In[1]) /\ Unparsable(In[1])
  /\ StageA(In[2]) /\ Unparsable(In[2]) /\ ~StageC(In[2])
  /\ Len(result.warnings) > Len(Out)

====
